---- MODULE Spec2Model ----
(***************************************************************************)
(* Model of the left-leaning red-black tree of maolonglong/llrb (llrb.go). *)
(* A tree is a value: NIL or a node record [item, left, right, color].     *)
(* The Go code rewires exclusively owned nodes in place and returns the    *)
(* new subtree root; the operators below return the rebuilt subtree.       *)
(***************************************************************************)
EXTENDS Integers, Sequences, FiniteSets, TLC

\* ------------------------------------------------------------------ bounds
MaxKey == 4        \* keys of the elements stored under Spec
MaxIterKey == 4    \* keys of the elements stored, and of the bounds, under SpecIter
MaxVal == 2        \* payloads that distinguish elements comparing equal
MaxInsKey == 7     \* keys of the elements stored under SpecIns

\* --------------------------------------------------------------- constants
_red == TRUE
_black == FALSE

Keys == 1..MaxKey
Vals == 1..MaxVal
Items == [k : Keys, v : Vals]
InsKeys == 1..MaxInsKey
\* the keys looked up and deleted: the stored ones and one never stored
ProbeKeys == 1..(MaxKey + 1)
IterKeys == 1..MaxIterKey
IterItems == [k : IterKeys, v : {1}]

\* the absent node (a nil *node[T])
NIL == [nil |-> TRUE]

\* zero[T](): the zero value of the element type
zero == [k |-> 0, v |-> 0]

\* a comparator that tells apart entries of one key by their values
compare_byValue(a, b) ==
    IF a.k < b.k THEN -1 ELSE IF a.k > b.k THEN 1
    ELSE IF a.v < b.v THEN -1 ELSE IF a.v > b.v THEN 1 ELSE 0

\* the comparator handed to the tree: three-way, by key only
compare(a, b) == IF a.k < b.k THEN -1 ELSE IF a.k > b.k THEN 1 ELSE 0

\* nullItem[T]: an optional bound
nullItem(item, valid) == [item |-> item, valid |-> valid]
NoBound == nullItem(zero, FALSE)

\* --------------------------------------------------------- node primitives
newNode(item) == [item |-> item, left |-> NIL, right |-> NIL, color |-> _red]

isRed(h) == IF h = NIL THEN FALSE ELSE h.color

\* rotateLeft that leaves the promoted node its own colour
rotateLeft_keepColor(h) ==
    LET x == h.right
        h1 == [h EXCEPT !.right = x.left, !.color = _red]
    IN  [x EXCEPT !.left = h1]

rotateLeft(h) ==
    LET x == h.right
        h1 == [h EXCEPT !.right = x.left, !.color = _red]
    IN  [x EXCEPT !.left = h1, !.color = h.color]

rotateRight(h) ==
    LET x == h.left
        h1 == [h EXCEPT !.left = x.right, !.color = _red]
    IN  [x EXCEPT !.right = h1, !.color = h.color]

colorFlip(h) ==
    [h EXCEPT !.color = ~h.color,
              !.left = [h.left EXCEPT !.color = ~h.left.color],
              !.right = [h.right EXCEPT !.color = ~h.right.color]]

\* fixUp that never splits a node with two red children
fixUp_noColorFlip(h) ==
    LET h1 == IF isRed(h.right) /\ ~isRed(h.left) THEN rotateLeft(h) ELSE h
    IN  IF isRed(h1.left) /\ isRed(h1.left.left) THEN rotateRight(h1) ELSE h1

\* fixUp that never rotates a red-red left spine to the right
fixUp_noRotateRight(h) ==
    LET h1 == IF isRed(h.right) /\ ~isRed(h.left) THEN rotateLeft(h) ELSE h
    IN  IF isRed(h1.left) /\ isRed(h1.right) THEN colorFlip(h1) ELSE h1

\* fixUp that never rotates a right-leaning red link to the left
fixUp_noRotateLeft(h) ==
    LET h2 == IF isRed(h.left) /\ isRed(h.left.left) THEN rotateRight(h) ELSE h
    IN  IF isRed(h2.left) /\ isRed(h2.right) THEN colorFlip(h2) ELSE h2

fixUp(h) ==
    LET h1 == IF isRed(h.right) /\ ~isRed(h.left) THEN rotateLeft(h) ELSE h
        h2 == IF isRed(h1.left) /\ isRed(h1.left.left) THEN rotateRight(h1) ELSE h1
    IN  IF isRed(h2.left) /\ isRed(h2.right) THEN colorFlip(h2) ELSE h2

\* moveRedLeft that does not flip the colours before it looks to the right
moveRedLeft_noFlip(h) ==
    IF isRed(h.right.left)
    THEN colorFlip(rotateLeft([h EXCEPT !.right = rotateRight(h.right)]))
    ELSE h

moveRedLeft(h) ==
    LET h1 == colorFlip(h)
    IN  IF isRed(h1.right.left)
        THEN colorFlip(rotateLeft([h1 EXCEPT !.right = rotateRight(h1.right)]))
        ELSE h1

moveRedRight(h) ==
    LET h1 == colorFlip(h)
    IN  IF isRed(h1.left.left)
        THEN colorFlip(rotateRight(h1))
        ELSE h1

\* ------------------------------------------------------- recursive helpers
\* each returns [h |-> new subtree root, item |-> returned element, ok |-> flag]
Ret(h, item, ok) == [h |-> h, item |-> item, ok |-> ok]

\* insert that keeps the old item at an equal node
RECURSIVE insert_keepOld(_, _)
insert_keepOld(h, item) ==
    IF h = NIL THEN Ret(newNode(item), zero, FALSE)
    ELSE LET cmp == compare(item, h.item)
         IN  IF cmp = 0
             THEN Ret(fixUp(h), h.item, TRUE)
             ELSE IF cmp < 0
             THEN LET r == insert_keepOld(h.left, item)
                  IN  Ret(fixUp([h EXCEPT !.left = r.h]), r.item, r.ok)
             ELSE LET r == insert_keepOld(h.right, item)
                  IN  Ret(fixUp([h EXCEPT !.right = r.h]), r.item, r.ok)

\* insert that colours the node it replaces the item of red, as it colours a
\* new node
RECURSIVE insert_reddens(_, _)
insert_reddens(h, item) ==
    IF h = NIL THEN Ret(newNode(item), zero, FALSE)
    ELSE LET cmp == compare(item, h.item)
         IN  IF cmp = 0
             THEN Ret(fixUp([h EXCEPT !.item = item, !.color = _red]), h.item, TRUE)
             ELSE IF cmp < 0
             THEN LET r == insert_reddens(h.left, item)
                  IN  Ret(fixUp([h EXCEPT !.left = r.h]), r.item, r.ok)
             ELSE LET r == insert_reddens(h.right, item)
                  IN  Ret(fixUp([h EXCEPT !.right = r.h]), r.item, r.ok)

RECURSIVE insert(_, _)
insert(h, item) ==
    IF h = NIL THEN Ret(newNode(item), zero, FALSE)
    ELSE LET cmp == compare(item, h.item)
         IN  IF cmp = 0
             THEN Ret(fixUp([h EXCEPT !.item = item]), h.item, TRUE)
             ELSE IF cmp < 0
             THEN LET r == insert(h.left, item)
                  IN  Ret(fixUp([h EXCEPT !.left = r.h]), r.item, r.ok)
             ELSE LET r == insert(h.right, item)
                  IN  Ret(fixUp([h EXCEPT !.right = r.h]), r.item, r.ok)

\* deleteMin that hands the least node back instead of detaching it
RECURSIVE deleteMin_keepsLeaf(_)
deleteMin_keepsLeaf(h) ==
    IF h = NIL THEN Ret(NIL, zero, FALSE)
    ELSE IF h.left = NIL THEN Ret(h, h.item, TRUE)
    ELSE LET h1 == IF ~isRed(h.left) /\ ~isRed(h.left.left)
                   THEN moveRedLeft(h) ELSE h
             r == deleteMin_keepsLeaf(h1.left)
         IN  Ret(fixUp([h1 EXCEPT !.left = r.h]), r.item, r.ok)

RECURSIVE deleteMin(_)
deleteMin(h) ==
    IF h = NIL THEN Ret(NIL, zero, FALSE)
    ELSE IF h.left = NIL THEN Ret(NIL, h.item, TRUE)
    ELSE LET h1 == IF ~isRed(h.left) /\ ~isRed(h.left.left)
                   THEN moveRedLeft(h) ELSE h
             r == deleteMin(h1.left)
         IN  Ret(fixUp([h1 EXCEPT !.left = r.h]), r.item, r.ok)

\* deleteMax that does not lean a red left link to the right first
RECURSIVE deleteMax_noRotate(_)
deleteMax_noRotate(h) ==
    IF h = NIL THEN Ret(NIL, zero, FALSE)
    ELSE IF h.right = NIL THEN Ret(NIL, h.item, TRUE)
         ELSE LET h2 == IF ~isRed(h.right) /\ ~isRed(h.right.left)
                        THEN moveRedRight(h) ELSE h
                  r == deleteMax_noRotate(h2.right)
              IN  Ret(fixUp([h2 EXCEPT !.right = r.h]), r.item, r.ok)

RECURSIVE deleteMax(_)
deleteMax(h) ==
    IF h = NIL THEN Ret(NIL, zero, FALSE)
    ELSE LET h1 == IF isRed(h.left) THEN rotateRight(h) ELSE h
         IN  IF h1.right = NIL THEN Ret(NIL, h1.item, TRUE)
             ELSE LET h2 == IF ~isRed(h1.right) /\ ~isRed(h1.right.left)
                            THEN moveRedRight(h1) ELSE h1
                      r == deleteMax(h2.right)
                  IN  Ret(fixUp([h2 EXCEPT !.right = r.h]), r.item, r.ok)

\* delete that reports the successor it moved up as the deleted element
RECURSIVE delete_returnsSuccessor(_, _)
delete_returnsSuccessor(h, item) ==
    IF h = NIL THEN Ret(NIL, zero, FALSE)
    ELSE IF compare(item, h.item) < 0
    THEN IF h.left = NIL THEN Ret(h, zero, FALSE)
         ELSE LET h1 == IF ~isRed(h.left) /\ ~isRed(h.left.left)
                        THEN moveRedLeft(h) ELSE h
                  r == delete_returnsSuccessor(h1.left, item)
              IN  Ret(fixUp([h1 EXCEPT !.left = r.h]), r.item, r.ok)
    ELSE LET h1 == IF isRed(h.left) THEN rotateRight(h) ELSE h
         IN  IF compare(item, h1.item) = 0 /\ h1.right = NIL
             THEN Ret(NIL, h1.item, TRUE)
             ELSE LET h2 == IF h1.right # NIL /\ ~isRed(h1.right)
                               /\ ~isRed(h1.right.left)
                            THEN moveRedRight(h1) ELSE h1
                  IN  IF compare(item, h2.item) = 0
                      THEN LET m == deleteMin(h2.right)
                           IN  Ret(fixUp([h2 EXCEPT !.right = m.h, !.item = m.item]),
                                   m.item, TRUE)
                      ELSE LET r == delete_returnsSuccessor(h2.right, item)
                           IN  Ret(fixUp([h2 EXCEPT !.right = r.h]), r.item, r.ok)

\* delete that takes the least element out of the right subtree and leaves the
\* item of the node as it was
RECURSIVE delete_keepsItem(_, _)
delete_keepsItem(h, item) ==
    IF h = NIL THEN Ret(NIL, zero, FALSE)
    ELSE IF compare(item, h.item) < 0
    THEN IF h.left = NIL THEN Ret(h, zero, FALSE)
         ELSE LET h1 == IF ~isRed(h.left) /\ ~isRed(h.left.left)
                        THEN moveRedLeft(h) ELSE h
                  r == delete_keepsItem(h1.left, item)
              IN  Ret(fixUp([h1 EXCEPT !.left = r.h]), r.item, r.ok)
    ELSE LET h1 == IF isRed(h.left) THEN rotateRight(h) ELSE h
         IN  IF compare(item, h1.item) = 0 /\ h1.right = NIL
             THEN Ret(NIL, h1.item, TRUE)
             ELSE LET h2 == IF h1.right # NIL /\ ~isRed(h1.right)
                               /\ ~isRed(h1.right.left)
                            THEN moveRedRight(h1) ELSE h1
                  IN  IF compare(item, h2.item) = 0
                      THEN LET m == deleteMin(h2.right)
                           IN  Ret(fixUp([h2 EXCEPT !.right = m.h]), h2.item, TRUE)
                      ELSE LET r == delete_keepsItem(h2.right, item)
                           IN  Ret(fixUp([h2 EXCEPT !.right = r.h]), r.item, r.ok)

RECURSIVE delete(_, _)
delete(h, item) ==
    IF h = NIL THEN Ret(NIL, zero, FALSE)
    ELSE IF compare(item, h.item) < 0
    THEN IF h.left = NIL THEN Ret(h, zero, FALSE)
         ELSE LET h1 == IF ~isRed(h.left) /\ ~isRed(h.left.left)
                        THEN moveRedLeft(h) ELSE h
                  r == delete(h1.left, item)
              IN  Ret(fixUp([h1 EXCEPT !.left = r.h]), r.item, r.ok)
    ELSE LET h1 == IF isRed(h.left) THEN rotateRight(h) ELSE h
         IN  IF compare(item, h1.item) = 0 /\ h1.right = NIL
             THEN Ret(NIL, h1.item, TRUE)
             ELSE LET h2 == IF h1.right # NIL /\ ~isRed(h1.right)
                               /\ ~isRed(h1.right.left)
                            THEN moveRedRight(h1) ELSE h1
                  IN  IF compare(item, h2.item) = 0
                      THEN LET m == deleteMin(h2.right)
                           IN  Ret(fixUp([h2 EXCEPT !.right = m.h, !.item = m.item]),
                                   h2.item, TRUE)
                      ELSE LET r == delete(h2.right, item)
                           IN  Ret(fixUp([h2 EXCEPT !.right = r.h]), r.item, r.ok)

\* a lookup that hands back the search key instead of the stored element
RECURSIVE search_returnsKey(_, _)
search_returnsKey(x, item) ==
    IF x = NIL THEN [item |-> zero, ok |-> FALSE]
    ELSE LET cmp == compare(item, x.item)
         IN  IF cmp = 0 THEN [item |-> item, ok |-> TRUE]
             ELSE IF cmp < 0 THEN search_returnsKey(x.left, item)
             ELSE search_returnsKey(x.right, item)

\* a lookup that hands back the search key, and not the zero value, when it
\* finds nothing
RECURSIVE search_keepsKey(_, _)
search_keepsKey(x, item) ==
    IF x = NIL THEN [item |-> item, ok |-> FALSE]
    ELSE LET cmp == compare(item, x.item)
         IN  IF cmp = 0 THEN [item |-> x.item, ok |-> TRUE]
             ELSE IF cmp < 0 THEN search_keepsKey(x.left, item)
             ELSE search_keepsKey(x.right, item)

\* Get's loop, as a descent from x
RECURSIVE search(_, _)
search(x, item) ==
    IF x = NIL THEN [item |-> zero, ok |-> FALSE]
    ELSE LET cmp == compare(item, x.item)
         IN  IF cmp = 0 THEN [item |-> x.item, ok |-> TRUE]
             ELSE IF cmp < 0 THEN search(x.left, item)
             ELSE search(x.right, item)

\* the caller's predicate: it answers false on the element keyed `stop`
\* (stop = 0: it answers true on every element)
iter(item, stop) == item.k # stop

\* iterate whose ascending walk takes the end bound as inclusive
RECURSIVE iterate_inclusiveEnd(_, _, _, _, _)
iterate_inclusiveEnd(h, desc, start, end, stop) ==
    IF h = NIL THEN [ok |-> TRUE, calls |-> <<>>]
    ELSE IF ~desc
    THEN IF end.valid /\ compare(h.item, end.item) > 0
         THEN iterate_inclusiveEnd(h.left, desc, start, end, stop)
         ELSE IF start.valid /\ compare(h.item, start.item) < 0
         THEN iterate_inclusiveEnd(h.right, desc, start, end, stop)
         ELSE LET l == iterate_inclusiveEnd(h.left, desc, start, end, stop)
              IN  IF ~l.ok THEN [ok |-> FALSE, calls |-> l.calls]
                  ELSE IF ~iter(h.item, stop)
                  THEN [ok |-> FALSE, calls |-> Append(l.calls, h.item)]
                  ELSE LET r == iterate_inclusiveEnd(h.right, desc, start, end, stop)
                       IN  [ok |-> r.ok,
                            calls |-> Append(l.calls, h.item) \o r.calls]
    ELSE IF end.valid /\ compare(h.item, end.item) <= 0
         THEN iterate_inclusiveEnd(h.right, desc, start, end, stop)
         ELSE IF start.valid /\ compare(h.item, start.item) > 0
         THEN iterate_inclusiveEnd(h.left, desc, start, end, stop)
         ELSE LET r == iterate_inclusiveEnd(h.right, desc, start, end, stop)
              IN  IF ~r.ok THEN [ok |-> FALSE, calls |-> r.calls]
                  ELSE IF ~iter(h.item, stop)
                  THEN [ok |-> FALSE, calls |-> Append(r.calls, h.item)]
                  ELSE LET l == iterate_inclusiveEnd(h.left, desc, start, end, stop)
                       IN  [ok |-> l.ok,
                            calls |-> Append(r.calls, h.item) \o l.calls]

\* iterate that drops the stop reported by the subtree it walks first
RECURSIVE iterate_dropsStop(_, _, _, _, _)
iterate_dropsStop(h, desc, start, end, stop) ==
    IF h = NIL THEN [ok |-> TRUE, calls |-> <<>>]
    ELSE IF ~desc
    THEN IF end.valid /\ compare(h.item, end.item) >= 0
         THEN iterate_dropsStop(h.left, desc, start, end, stop)
         ELSE IF start.valid /\ compare(h.item, start.item) < 0
         THEN iterate_dropsStop(h.right, desc, start, end, stop)
         ELSE LET l == iterate_dropsStop(h.left, desc, start, end, stop)
              IN  IF ~iter(h.item, stop)
                  THEN [ok |-> FALSE, calls |-> Append(l.calls, h.item)]
                  ELSE LET r == iterate_dropsStop(h.right, desc, start, end, stop)
                       IN  [ok |-> r.ok,
                            calls |-> Append(l.calls, h.item) \o r.calls]
    ELSE IF end.valid /\ compare(h.item, end.item) <= 0
         THEN iterate_dropsStop(h.right, desc, start, end, stop)
         ELSE IF start.valid /\ compare(h.item, start.item) > 0
         THEN iterate_dropsStop(h.left, desc, start, end, stop)
         ELSE LET r == iterate_dropsStop(h.right, desc, start, end, stop)
              IN  IF ~iter(h.item, stop)
                  THEN [ok |-> FALSE, calls |-> Append(r.calls, h.item)]
                  ELSE LET l == iterate_dropsStop(h.left, desc, start, end, stop)
                       IN  [ok |-> l.ok,
                            calls |-> Append(r.calls, h.item) \o l.calls]

\* returns [ok |-> the walk was not stopped, calls |-> the elements handed
\* to the predicate, in call order]
RECURSIVE iterate(_, _, _, _, _)
iterate(h, desc, start, end, stop) ==
    IF h = NIL THEN [ok |-> TRUE, calls |-> <<>>]
    ELSE IF ~desc
    THEN IF end.valid /\ compare(h.item, end.item) >= 0
         THEN iterate(h.left, desc, start, end, stop)
         ELSE IF start.valid /\ compare(h.item, start.item) < 0
         THEN iterate(h.right, desc, start, end, stop)
         ELSE LET l == iterate(h.left, desc, start, end, stop)
              IN  IF ~l.ok THEN [ok |-> FALSE, calls |-> l.calls]
                  ELSE IF ~iter(h.item, stop)
                  THEN [ok |-> FALSE, calls |-> Append(l.calls, h.item)]
                  ELSE LET r == iterate(h.right, desc, start, end, stop)
                       IN  [ok |-> r.ok,
                            calls |-> Append(l.calls, h.item) \o r.calls]
    ELSE IF end.valid /\ compare(h.item, end.item) <= 0
         THEN iterate(h.right, desc, start, end, stop)
         ELSE IF start.valid /\ compare(h.item, start.item) > 0
         THEN iterate(h.left, desc, start, end, stop)
         ELSE LET r == iterate(h.right, desc, start, end, stop)
              IN  IF ~r.ok THEN [ok |-> FALSE, calls |-> r.calls]
                  ELSE IF ~iter(h.item, stop)
                  THEN [ok |-> FALSE, calls |-> Append(r.calls, h.item)]
                  ELSE LET l == iterate(h.left, desc, start, end, stop)
                       IN  [ok |-> l.ok,
                            calls |-> Append(r.calls, h.item) \o l.calls]

\* ------------------------------------------------------------------- state
VARIABLES
    root,    \* LLRBTree.root
    len,     \* LLRBTree.len
    op,      \* the public operation that ran last
    arg,     \* its arguments
    ret,     \* what it returned: [item, ok]
    calls,   \* the elements it handed to the caller's predicate, in order
    pre,     \* root and len as they were when it was called
    stored,  \* history: the elements put in and not taken out since
    compareSet,  \* LLRBTree.compare is not nil
    panic    \* the value the program panicked with, "" while it runs

vars == <<root, len, op, arg, ret, calls, pre, stored, compareSet, panic>>

\* a search key: only its key matters to the comparator
Probe(k) == [k |-> k, v |-> 0]

\* given: the bounds as the caller of a range operation handed them over
Arg(item, start, end, stop) ==
    [item |-> item, start |-> start, end |-> end, stop |-> stop, given |-> <<>>]
NoArg == Arg(zero, NoBound, NoBound, 0)
NoRet == [item |-> zero, ok |-> FALSE]
Here == [root |-> root, len |-> len]

Without(S, item) == {e \in S : e.k # item.k}
Least(S) == {e \in S : \A f \in S : e.k <= f.k}
Greatest(S) == {e \in S : \A f \in S : e.k >= f.k}

\* NewLLRBTree(compare): the comparator is stored as it is handed in
NewLLRBTree(given) ==
    /\ root = NIL
    /\ len = 0
    /\ op = "New"
    /\ arg = NoArg
    /\ ret = NoRet
    /\ calls = <<>>
    /\ pre = [root |-> NIL, len |-> 0]
    /\ stored = {}
    /\ compareSet = given
    /\ panic = ""

Init == NewLLRBTree(TRUE)

\* ReplaceOrInsert that leaves the root the colour insert gave it
ReplaceOrInsert_keepsRootColor(item) ==
    LET r == insert(root, item)
    IN  /\ root' = r.h
        /\ len' = IF ~r.ok THEN len + 1 ELSE len
        /\ ret' = [item |-> r.item, ok |-> r.ok]
        /\ op' = "ReplaceOrInsert"
        /\ arg' = Arg(item, NoBound, NoBound, 0)
        /\ calls' = <<>>
        /\ pre' = Here
        /\ stored' = Without(stored, item) \cup {item}
        /\ UNCHANGED <<compareSet, panic>>

\* ReplaceOrInsert that counts every call as a new element
ReplaceOrInsert_countsAll(item) ==
    LET r == insert(root, item)
    IN  /\ root' = [r.h EXCEPT !.color = _black]
        /\ len' = len + 1
        /\ ret' = [item |-> r.item, ok |-> r.ok]
        /\ op' = "ReplaceOrInsert"
        /\ arg' = Arg(item, NoBound, NoBound, 0)
        /\ calls' = <<>>
        /\ pre' = Here
        /\ stored' = Without(stored, item) \cup {item}
        /\ UNCHANGED <<compareSet, panic>>

ReplaceOrInsert(item) ==
    LET r == insert(root, item)
    IN  /\ root' = [r.h EXCEPT !.color = _black]
        /\ len' = IF ~r.ok THEN len + 1 ELSE len
        /\ ret' = [item |-> r.item, ok |-> r.ok]
        /\ op' = "ReplaceOrInsert"
        /\ arg' = Arg(item, NoBound, NoBound, 0)
        /\ calls' = <<>>
        /\ pre' = Here
        /\ stored' = Without(stored, item) \cup {item}
        /\ UNCHANGED <<compareSet, panic>>

\* Get that leans a red left link of the root to the right on its way down
Get_rotates(item) ==
    /\ ret' = search(root, item)
    /\ op' = "Get"
    /\ arg' = Arg(item, NoBound, NoBound, 0)
    /\ calls' = <<>>
    /\ pre' = Here
    /\ root' = IF root # NIL /\ isRed(root.left) THEN rotateRight(root) ELSE root
    /\ UNCHANGED <<len, stored>>
    /\ UNCHANGED <<compareSet, panic>>

Get(item) ==
    /\ ret' = search(root, item)
    /\ op' = "Get"
    /\ arg' = Arg(item, NoBound, NoBound, 0)
    /\ calls' = <<>>
    /\ pre' = Here
    /\ UNCHANGED <<root, len, stored>>
    /\ UNCHANGED <<compareSet, panic>>

Has(item) ==
    /\ ret' = [item |-> zero, ok |-> search(root, item).ok]
    /\ op' = "Has"
    /\ arg' = Arg(item, NoBound, NoBound, 0)
    /\ calls' = <<>>
    /\ pre' = Here
    /\ UNCHANGED <<root, len, stored>>
    /\ UNCHANGED <<compareSet, panic>>

\* the shared tail, taking one off the length whether or not anything was found
Removed_countsAll(r, name, a) ==
    /\ root' = IF r.h # NIL THEN [r.h EXCEPT !.color = _black] ELSE NIL
    /\ len' = len - 1
    /\ ret' = [item |-> r.item, ok |-> r.ok]
    /\ op' = name
    /\ arg' = a
    /\ calls' = <<>>
    /\ pre' = Here
    /\ UNCHANGED <<compareSet, panic>>

\* the tail shared by DeleteMin, DeleteMax and Delete
Removed(r, name, a) ==
    /\ root' = IF r.h # NIL THEN [r.h EXCEPT !.color = _black] ELSE NIL
    /\ len' = IF r.ok THEN len - 1 ELSE len
    /\ ret' = [item |-> r.item, ok |-> r.ok]
    /\ op' = name
    /\ arg' = a
    /\ calls' = <<>>
    /\ pre' = Here
    /\ UNCHANGED <<compareSet, panic>>

DeleteMin ==
    /\ Removed(deleteMin(root), "DeleteMin", NoArg)
    /\ stored' = stored \ Least(stored)

DeleteMax ==
    /\ Removed(deleteMax(root), "DeleteMax", NoArg)
    /\ stored' = stored \ Greatest(stored)

Delete(item) ==
    /\ Removed(delete(root, item), "Delete", Arg(item, NoBound, NoBound, 0))
    /\ stored' = Without(stored, item)

\* Len(): it returns t.len, the variable len, and assigns nothing
TreeLen ==
    /\ ret' = NoRet
    /\ op' = "Len"
    /\ arg' = NoArg
    /\ calls' = <<>>
    /\ pre' = Here
    /\ UNCHANGED <<root, len, stored>>
    /\ UNCHANGED <<compareSet, panic>>

\* Clear that resets the length and keeps the nodes
Clear_keepsRoot ==
    /\ root' = root
    /\ len' = 0
    /\ ret' = NoRet
    /\ op' = "Clear"
    /\ arg' = NoArg
    /\ calls' = <<>>
    /\ pre' = Here
    /\ stored' = {}
    /\ UNCHANGED <<compareSet, panic>>

Clear ==
    /\ root' = NIL
    /\ len' = 0
    /\ ret' = NoRet
    /\ op' = "Clear"
    /\ arg' = NoArg
    /\ calls' = <<>>
    /\ pre' = Here
    /\ stored' = {}
    /\ UNCHANGED <<compareSet, panic>>

\* the body shared by the eight range operations
Range(name, given, desc, start, end, stop) ==
    /\ calls' = iterate(root, desc, start, end, stop).calls
    /\ ret' = NoRet
    /\ op' = name
    /\ arg' = [Arg(zero, start, end, stop) EXCEPT !.given = given]
    /\ pre' = Here
    /\ UNCHANGED <<root, len, stored>>
    /\ UNCHANGED <<compareSet, panic>>

AscendRange(greaterOrEqual, lessThan, stop) ==
    Range("AscendRange", <<greaterOrEqual, lessThan>>, FALSE, nullItem(greaterOrEqual, TRUE),
          nullItem(lessThan, TRUE), stop)

AscendLessThan(pivot, stop) ==
    Range("AscendLessThan", <<pivot>>, FALSE, NoBound, nullItem(pivot, TRUE), stop)

AscendGreaterOrEqual(pivot, stop) ==
    Range("AscendGreaterOrEqual", <<pivot>>, FALSE,
          nullItem(pivot, TRUE), NoBound, stop)

Ascend(stop) == Range("Ascend", <<>>, FALSE, NoBound, NoBound, stop)

\* DescendRange that hands its two bounds over in the other order
DescendRange_swapped(lessOrEqual, greaterThan, stop) ==
    Range("DescendRange", <<lessOrEqual, greaterThan>>, TRUE, nullItem(greaterThan, TRUE),
          nullItem(lessOrEqual, TRUE), stop)

DescendRange(lessOrEqual, greaterThan, stop) ==
    Range("DescendRange", <<lessOrEqual, greaterThan>>, TRUE, nullItem(lessOrEqual, TRUE),
          nullItem(greaterThan, TRUE), stop)

DescendLessOrEqual(pivot, stop) ==
    Range("DescendLessOrEqual", <<pivot>>, TRUE, nullItem(pivot, TRUE), NoBound, stop)

DescendGreaterThan(pivot, stop) ==
    Range("DescendGreaterThan", <<pivot>>, TRUE, NoBound, nullItem(pivot, TRUE), stop)

\* Descend that walks in ascending order
Descend_ascending(stop) == Range("Descend", <<>>, FALSE, NoBound, NoBound, stop)

Descend(stop) == Range("Descend", <<>>, TRUE, NoBound, NoBound, stop)

\* DeleteMin, DeleteMax and Delete as functions of the tree t = [root, len]:
\* the tree they leave and what they return
removed(t, r) ==
    [root |-> IF r.h # NIL THEN [r.h EXCEPT !.color = _black] ELSE NIL,
     len |-> IF r.ok THEN t.len - 1 ELSE t.len,
     item |-> r.item,
     ok |-> r.ok]

afterDeleteMin(t) == removed(t, deleteMin(t.root))
afterDeleteMax(t) == removed(t, deleteMax(t.root))
afterDelete(t, item) == removed(t, delete(t.root, item))

\* the present children that deleteMin(h) and its recursive calls descend into,
\* each as it is at the moment of the call
Present(c) == IF c = NIL THEN {} ELSE {c}

RECURSIVE deleteMinDescents(_)
deleteMinDescents(h) ==
    IF h = NIL THEN {}
    ELSE IF h.left = NIL THEN {}
    ELSE LET h1 == IF ~isRed(h.left) /\ ~isRed(h.left.left)
                   THEN moveRedLeft(h) ELSE h
         IN  Present(h1.left) \cup deleteMinDescents(h1.left)

\* likewise for deleteMax(h)
RECURSIVE deleteMaxDescents(_)
deleteMaxDescents(h) ==
    IF h = NIL THEN {}
    ELSE LET h1 == IF isRed(h.left) THEN rotateRight(h) ELSE h
         IN  IF h1.right = NIL THEN {}
             ELSE LET h2 == IF ~isRed(h1.right) /\ ~isRed(h1.right.left)
                            THEN moveRedRight(h1) ELSE h1
                  IN  Present(h2.right) \cup deleteMaxDescents(h2.right)

\* likewise for delete(h, item), the deleteMin call on the right subtree
\* included
RECURSIVE deleteDescents(_, _)
deleteDescents(h, item) ==
    IF h = NIL THEN {}
    ELSE IF compare(item, h.item) < 0
    THEN IF h.left = NIL THEN {}
         ELSE LET h1 == IF ~isRed(h.left) /\ ~isRed(h.left.left)
                        THEN moveRedLeft(h) ELSE h
              IN  Present(h1.left) \cup deleteDescents(h1.left, item)
    ELSE LET h1 == IF isRed(h.left) THEN rotateRight(h) ELSE h
         IN  IF compare(item, h1.item) = 0 /\ h1.right = NIL
             THEN {}
             ELSE LET h2 == IF h1.right # NIL /\ ~isRed(h1.right)
                               /\ ~isRed(h1.right.left)
                            THEN moveRedRight(h1) ELSE h1
                  IN  IF compare(item, h2.item) = 0
                      THEN Present(h2.right) \cup deleteMinDescents(h2.right)
                      ELSE Present(h2.right) \cup deleteDescents(h2.right, item)

\* the node at which delete(h, item) finds item with a right subtree to take
\* the successor from: at is the node when lines 265-268 are reached, the
\* rotateRight and moveRedRight above them done, put is the node they leave
\* for fixUp; no element when delete ends in another branch
RECURSIVE deleteTarget(_, _)
deleteTarget(h, item) ==
    IF h = NIL THEN {}
    ELSE IF compare(item, h.item) < 0
    THEN IF h.left = NIL THEN {}
         ELSE LET h1 == IF ~isRed(h.left) /\ ~isRed(h.left.left)
                        THEN moveRedLeft(h) ELSE h
              IN  deleteTarget(h1.left, item)
    ELSE LET h1 == IF isRed(h.left) THEN rotateRight(h) ELSE h
         IN  IF compare(item, h1.item) = 0 /\ h1.right = NIL
             THEN {}
             ELSE LET h2 == IF h1.right # NIL /\ ~isRed(h1.right)
                               /\ ~isRed(h1.right.left)
                            THEN moveRedRight(h1) ELSE h1
                  IN  IF compare(item, h2.item) = 0
                      THEN LET m == deleteMin(h2.right)
                           IN  {[at |-> h2,
                                 put |-> [h2 EXCEPT !.right = m.h, !.item = m.item]]}
                      ELSE deleteTarget(h2.right, item)

\* ------------------------------------------------------------ map adapter
MapSet(key, value) == ReplaceOrInsert([k |-> key, v |-> value])

MapGet(key) == Get(Probe(key))

MapDelete(key) == Delete(Probe(key))

MapHas(key) == Has(Probe(key))

MapRange(stop) == Ascend(stop)

MapClear == Clear

\* what Set, Get and Delete hand back: the value of the entry the tree
\* returned, or the zero value
mapRet == [value |-> IF ret.ok THEN ret.item.v ELSE 0, ok |-> ret.ok]

\* ---------------------------------------------------------- specifications
\* the tree under its mutating operations and point lookups
Next ==
    \/ \E item \in Items : ReplaceOrInsert(item)
    \/ DeleteMin
    \/ DeleteMax
    \/ \E k \in ProbeKeys : Delete(Probe(k))
    \/ Clear
    \/ \E k \in ProbeKeys : Get(Probe(k))
    \/ \E k \in ProbeKeys : Has(Probe(k))

Spec == Init /\ [][Next]_vars

\* the tree under range queries; the predicate stops on the element keyed s
IterStops == 0..MaxIterKey

NextIter ==
    \/ \E item \in IterItems : ReplaceOrInsert(item)
    \/ DeleteMin
    \/ DeleteMax
    \/ \E k \in IterKeys : Delete(Probe(k))
    \/ Clear
    \/ \E a, b \in IterKeys, s \in IterStops : AscendRange(Probe(a), Probe(b), s)
    \/ \E a \in IterKeys, s \in IterStops : AscendLessThan(Probe(a), s)
    \/ \E a \in IterKeys, s \in IterStops : AscendGreaterOrEqual(Probe(a), s)
    \/ \E s \in IterStops : Ascend(s)
    \/ \E a, b \in IterKeys, s \in IterStops : DescendRange(Probe(a), Probe(b), s)
    \/ \E a \in IterKeys, s \in IterStops : DescendLessOrEqual(Probe(a), s)
    \/ \E a \in IterKeys, s \in IterStops : DescendGreaterThan(Probe(a), s)
    \/ \E s \in IterStops : Descend(s)

SpecIter == Init /\ [][NextIter]_vars

\* the tree under every operation that only reads it, range queries included
NextRead ==
    \/ NextIter
    \/ \E k \in IterKeys : Get(Probe(k))
    \/ \E k \in IterKeys : Has(Probe(k))
    \/ TreeLen

SpecRead == Init /\ [][NextRead]_vars

\* the tree as NewLLRBTree hands it out, whatever comparator it was given
InitNew == \E given \in BOOLEAN : NewLLRBTree(given)

\* a call of the nil comparator: the Go runtime panics before the operation
\* has assigned anything
Crash(name, a) ==
    /\ panic' = "invalid memory address or nil pointer dereference"
    /\ op' = name
    /\ arg' = a
    /\ ret' = NoRet
    /\ calls' = <<>>
    /\ pre' = Here
    /\ UNCHANGED <<root, len, stored, compareSet>>

\* an operation of a running program; callsCompare: its code reaches a call
\* of t.compare (insert, Get and delete do so exactly when the root is present)
OnTree(callsCompare, name, a, Operation) ==
    /\ panic = ""
    /\ IF ~compareSet /\ callsCompare THEN Crash(name, a) ELSE Operation

NextNew ==
    \/ \E item \in Items :
           OnTree(root # NIL, "ReplaceOrInsert", Arg(item, NoBound, NoBound, 0),
                  ReplaceOrInsert(item))
    \/ OnTree(FALSE, "DeleteMin", NoArg, DeleteMin)
    \/ OnTree(FALSE, "DeleteMax", NoArg, DeleteMax)
    \/ \E k \in ProbeKeys :
           OnTree(root # NIL, "Delete", Arg(Probe(k), NoBound, NoBound, 0),
                  Delete(Probe(k)))
    \/ OnTree(FALSE, "Clear", NoArg, Clear)
    \/ \E k \in ProbeKeys :
           OnTree(root # NIL, "Get", Arg(Probe(k), NoBound, NoBound, 0),
                  Get(Probe(k)))

SpecNew == InitNew /\ [][NextNew]_vars

\* the map adapter over the tree
NextMap ==
    \/ \E key \in Keys, value \in Vals : MapSet(key, value)
    \/ \E key \in ProbeKeys : MapGet(key)
    \/ \E key \in ProbeKeys : MapDelete(key)
    \/ \E key \in ProbeKeys : MapHas(key)
    \/ \E s \in 0..MaxKey : MapRange(s)
    \/ MapClear

SpecMap == Init /\ [][NextMap]_vars

\* the tree grown by inserting distinct elements only
InsertNew(k) ==
    /\ ~search(root, Probe(k)).ok
    /\ ReplaceOrInsert([k |-> k, v |-> 1])

NextIns == \E k \in InsKeys : InsertNew(k)

SpecIns == Init /\ [][NextIns]_vars

\* ------------------------------------------------------- observing a tree
\* the number of nodes reachable from h
RECURSIVE Size(_)
Size(h) == IF h = NIL THEN 0 ELSE 1 + Size(h.left) + Size(h.right)

\* the items of the nodes reachable from h
RECURSIVE Contents(_)
Contents(h) ==
    IF h = NIL THEN {} ELSE {h.item} \cup Contents(h.left) \cup Contents(h.right)

\* maxDepth: the number of nodes on the longest path from h to an absent child
RECURSIVE maxDepth(_)
maxDepth(h) ==
    IF h = NIL THEN 0
    ELSE LET l == maxDepth(h.left)
             r == maxDepth(h.right)
         IN  1 + (IF l >= r THEN l ELSE r)

\* the numbers of black nodes met on the paths from h to its absent children
RECURSIVE BlackDepths(_)
BlackDepths(h) ==
    IF h = NIL THEN {0}
    ELSE {d + (IF h.color = _black THEN 1 ELSE 0) :
              d \in BlackDepths(h.left) \cup BlackDepths(h.right)}

\* some node reachable from h has a red right child
RECURSIVE HasRedRight(_)
HasRedRight(h) ==
    IF h = NIL THEN FALSE
    ELSE isRed(h.right) \/ HasRedRight(h.left) \/ HasRedRight(h.right)

\* some node reachable from h has two red children
RECURSIVE HasTwoRed(_)
HasTwoRed(h) ==
    IF h = NIL THEN FALSE
    ELSE (isRed(h.left) /\ isRed(h.right)) \/ HasTwoRed(h.left) \/ HasTwoRed(h.right)

\* some red node reachable from h has a red child
RECURSIVE HasRedRed(_)
HasRedRed(h) ==
    IF h = NIL THEN FALSE
    ELSE \/ isRed(h) /\ (isRed(h.left) \/ isRed(h.right))
         \/ HasRedRed(h.left)
         \/ HasRedRed(h.right)

\* the shape of the tree at h, items and colours left out
RECURSIVE Shape(_)
Shape(h) ==
    IF h = NIL THEN <<>> ELSE <<Shape(h.left), Shape(h.right)>>

RECURSIVE Pow2(_)
Pow2(n) == IF n = 0 THEN 1 ELSE 2 * Pow2(n - 1)

KeysOf(S) == {e.k : e \in S}

\* the elements of S in increasing comparator order
RECURSIVE Sorted(_)
Sorted(S) ==
    IF S = {} THEN <<>>
    ELSE LET m == CHOOSE e \in S : \A f \in S : e.k <= f.k
         IN  <<m>> \o Sorted(S \ {m})

Reverse(q) == [i \in 1..Len(q) |-> q[Len(q) + 1 - i]]

StrictlyIncreasing(q) ==
    \A i \in 1..(Len(q) - 1) : compare(q[i], q[i + 1]) < 0

Mutators == {"ReplaceOrInsert", "Delete", "DeleteMin", "DeleteMax", "Clear"}
Ascending == {"Ascend", "AscendRange", "AscendLessThan", "AscendGreaterOrEqual"}
Descending == {"Descend", "DescendRange", "DescendLessOrEqual", "DescendGreaterThan"}

\* ------------------------------------------------------------- properties
\* C1: after any sequence of ReplaceOrInsert, Delete, DeleteMin, DeleteMax
\* and Clear, Len() is the number of nodes reachable from root, and that is
\* the number of distinct elements put in and not taken out since.
LenIsCount ==
    /\ len = Size(root)
    /\ len = Cardinality(KeysOf(Contents(root)))
    /\ len = Cardinality(stored)

LenIsCountWitness ==
    /\ op = "Delete" /\ ret.ok
    /\ len >= 3
    /\ len < MaxKey

\* C2: Delete(x) of a stored x returns (the element stored for x, true);
\* afterwards x is not found, every other element is stored unchanged, and
\* Len() is one less.
DeleteStored ==
    (op = "Delete" /\ search(pre.root, arg.item).ok) =>
        /\ ret = search(pre.root, arg.item)
        /\ ~search(root, arg.item).ok
        /\ \A k \in ProbeKeys \ {arg.item.k} :
               search(root, Probe(k)) = search(pre.root, Probe(k))
        /\ Contents(root) = Contents(pre.root) \ {ret.item}
        /\ len = pre.len - 1

\* Delete of the element at a root that has both children
DeleteStoredWitness ==
    /\ op = "Delete" /\ ret.ok
    /\ pre.len >= 4
    /\ pre.root.item = ret.item

\* C3: ReplaceOrInsert(x) over an equal element returns (that element, true),
\* x is what Get then returns, and Len() is unchanged; with no equal element
\* it returns (zero, false) and Len() grows by one.
ReplaceSemantics ==
    op = "ReplaceOrInsert" =>
        LET old == search(pre.root, arg.item)
        IN  /\ search(root, arg.item) = [item |-> arg.item, ok |-> TRUE]
            /\ IF old.ok
               THEN ret = old /\ len = pre.len
               ELSE ret = NoRet /\ len = pre.len + 1

\* an element replaced by one that compares equal and differs
ReplaceSemanticsWitness ==
    /\ op = "ReplaceOrInsert" /\ ret.ok
    /\ ret.item # arg.item
    /\ len >= 3

\* C4: Get(x) right after inserting x returns (x, true), Get(x) right after
\* deleting x returns (zero, false), and Get/Has find x exactly when x was
\* put in and not taken out since.
RoundTrip ==
    /\ [][(op = "ReplaceOrInsert" /\ op' = "Get" /\ arg'.item.k = arg.item.k)
            => ret' = [item |-> arg.item, ok |-> TRUE]]_vars
    /\ [][(op = "Delete" /\ op' = "Get" /\ arg'.item.k = arg.item.k)
            => ret' = NoRet]_vars
    /\ [](op \in {"Get", "Has"} =>
            ret.ok = (arg.item.k \in KeysOf(stored)))
    /\ [](op = "Get" =>
            IF ret.ok THEN ret.item \in stored ELSE ret.item = zero)

RoundTripWitness ==
    /\ op = "Get" /\ ret.ok
    /\ len >= 3
    /\ root.item.k # arg.item.k

\* C5: with an always-true predicate Ascend visits every stored element
\* exactly once in strictly increasing comparator order, and Descend visits
\* exactly the reverse of that sequence.
OrderedWalk ==
    /\ (op = "Ascend" /\ arg.stop = 0) =>
           /\ StrictlyIncreasing(calls)
           /\ Len(calls) = len
           /\ {calls[i] : i \in 1..Len(calls)} = stored
    /\ (op = "Descend" /\ arg.stop = 0) =>
           /\ calls = Reverse(Sorted(stored))
           /\ calls = Reverse(iterate(root, FALSE, NoBound, NoBound, 0).calls)

OrderedWalkWitness ==
    /\ op = "Descend" /\ arg.stop = 0
    /\ Len(calls) >= 4
    /\ maxDepth(root) >= 3

\* C6: with an always-true predicate AscendRange(lo, hi) calls the predicate
\* on exactly the stored elements e with lo <= e < hi, each once, in
\* increasing order; on none when lo >= hi or no stored element is in range.
AscendRangeExact ==
    (op = "AscendRange" /\ arg.stop = 0) =>
        calls = Sorted({e \in stored :
                          /\ compare(arg.given[1], e) <= 0
                          /\ compare(e, arg.given[2]) < 0})

\* a range that takes some stored elements and leaves others on both sides
AscendRangeExactWitness ==
    /\ op = "AscendRange" /\ arg.stop = 0
    /\ Len(calls) >= 2
    /\ \E e \in stored : compare(e, arg.given[1]) < 0
    /\ \E e \in stored : compare(e, arg.given[2]) >= 0

\* the walk the operation that ran last makes when the predicate never stops
FullWalk ==
    iterate(pre.root, op \in Descending, arg.start, arg.end, 0).calls

\* the first n elements of q
Prefix(q, n) == [i \in 1..n |-> q[i]]

\* C7: in every range operation, a predicate that answers true on the first
\* k-1 in-range elements and false on the k-th is called exactly k times, on
\* the first k in-range elements in traversal order, and on nothing after.
EarlyStop ==
    (op \in Ascending \cup Descending) =>
        LET full == FullWalk
            hits == {i \in 1..Len(full) : ~iter(full[i], arg.stop)}
        IN  IF hits = {} THEN calls = full
            ELSE LET k == CHOOSE i \in hits : \A j \in hits : i <= j
                 IN  Len(calls) = k /\ calls = Prefix(full, k)

\* a walk stopped in the middle, below the root of a tree of depth 3
EarlyStopWitness ==
    /\ op \in Ascending \cup Descending
    /\ arg.stop # 0
    /\ Len(calls) >= 2
    /\ Len(calls) < Len(FullWalk)
    /\ calls[Len(calls)].k = arg.stop
    /\ maxDepth(root) >= 3

\* C8: after every public mutating operation, Delete of an absent item
\* included, every path from the root to an absent child has the same number
\* of black nodes.
BlackBalanced == Cardinality(BlackDepths(root)) = 1

\* a Delete that found nothing and still rebuilt the tree
BlackBalancedWitness ==
    /\ op = "Delete" /\ ~ret.ok
    /\ len >= 4
    /\ root # pre.root

\* C9: n distinct elements inserted into an empty tree, in any order, give a
\* tree of height h with 2^h <= (n+1)^2.
HeightBound == Pow2(maxDepth(root)) <= (len + 1) * (len + 1)

HeightBoundWitness ==
    /\ op = "ReplaceOrInsert"
    /\ len >= 6
    /\ maxDepth(root) >= 4

\* C10: after every public mutating operation no node has a red right child,
\* so no red node has a red right child and no node has two red children.
LeftLeaning == ~HasRedRight(root) /\ ~HasTwoRed(root)

\* a red link kept on the left below the root once a mutator has returned
LeftLeaningWitness ==
    /\ op \in {"ReplaceOrInsert", "Delete"}
    /\ root # pre.root
    /\ len >= 4
    /\ (isRed(root.left.left) \/ isRed(root.right.left))

\* C11: after every public mutating operation no red node has a red child:
\* no two red links follow each other on any path from the root.
NoRedRed == ~HasRedRed(root)

\* a red link below the root after a removal rebuilt the tree
NoRedRedWitness ==
    /\ op \in {"Delete", "DeleteMin", "DeleteMax"}
    /\ root # pre.root
    /\ len >= 2
    /\ isRed(root.left)

\* C12: on return from any public mutating operation the root is absent or
\* black.
RootBlack == root = NIL \/ root.color = _black

\* an insert that went below the root, whose fixUp handed back a red root
RootBlackWitness ==
    /\ op = "ReplaceOrInsert" /\ ~ret.ok
    /\ pre.len >= 2
    /\ insert(pre.root, arg.item).h.color = _red

\* C13 as stated: Delete(x) on a tree holding nothing equal to x reports
\* not-found and leaves the shape, every item, every colour and the length
\* as they were.
DeleteAbsentNoChange ==
    (op = "Delete" /\ ~search(pre.root, arg.item).ok) =>
        /\ ret = NoRet
        /\ root = pre.root
        /\ len = pre.len

\* C13 as amended: Delete(x) on a tree holding nothing equal to x reports
\* not-found and leaves the length, the stored elements and their order as
\* they were; the red-black invariants hold of the tree it leaves.
DeleteAbsentKeepsElements ==
    (op = "Delete" /\ ~search(pre.root, arg.item).ok) =>
        /\ ret = NoRet
        /\ len = pre.len
        /\ Contents(root) = Contents(pre.root)
        /\ iterate(root, FALSE, NoBound, NoBound, 0).calls
             = iterate(pre.root, FALSE, NoBound, NoBound, 0).calls
        /\ Cardinality(BlackDepths(root)) = 1
        /\ ~HasRedRight(root)
        /\ ~HasRedRed(root)

\* a Delete that found nothing and left a tree of another shape
DeleteAbsentKeepsElementsWitness ==
    /\ op = "Delete" /\ ~ret.ok
    /\ pre.root # NIL
    /\ Shape(root) # Shape(pre.root)

\* C14: constructing a tree with a nil comparator panics with "nil compare"
\* at construction and never yields a tree an operation can run on.
NilCompareRefused ==
    ~compareSet => (op = "New" /\ panic = "nil compare")

\* C15: on a non-empty tree DeleteMin returns (the least stored element,
\* true) and DeleteMax (the greatest, true); each removes exactly that
\* element, keeps every other one, and lowers Len() by one.
ExtremeRemoved ==
    (op \in {"DeleteMin", "DeleteMax"} /\ pre.root # NIL) =>
        /\ ret.ok
        /\ ret.item \in Contents(pre.root)
        /\ \A e \in Contents(pre.root) :
               IF op = "DeleteMin" THEN compare(ret.item, e) <= 0
                                   ELSE compare(ret.item, e) >= 0
        /\ Contents(root) = Contents(pre.root) \ {ret.item}
        /\ ~search(root, ret.item).ok
        /\ \A k \in ProbeKeys \ {ret.item.k} :
               search(root, Probe(k)) = search(pre.root, Probe(k))
        /\ len = pre.len - 1

\* DeleteMax on a tree whose greatest element is not at the root
ExtremeRemovedWitness ==
    /\ op = "DeleteMax" /\ ret.ok
    /\ pre.len >= 4
    /\ pre.root.item # ret.item

\* the tree after n DeleteMin calls
RECURSIVE MinTimes(_, _)
MinTimes(t, n) == IF n = 0 THEN t ELSE MinTimes(afterDeleteMin(t), n - 1)

\* the tree after n DeleteMax calls
RECURSIVE MaxTimes(_, _)
MaxTimes(t, n) == IF n = 0 THEN t ELSE MaxTimes(afterDeleteMax(t), n - 1)

\* the trees left by deleting the elements keyed in K, in every order
RECURSIVE DeleteEach(_, _)
DeleteEach(t, K) ==
    IF K = {} THEN {t}
    ELSE UNION {DeleteEach(afterDelete(t, Probe(k)), K \ {k}) : k \in K}

IsEmpty(t) == t.root = NIL /\ t.len = 0

\* one more removal of any kind finds nothing and leaves t empty
StaysEmpty(t) ==
    \A u \in {afterDeleteMin(t), afterDeleteMax(t)}
             \cup {afterDelete(t, Probe(k)) : k \in ProbeKeys} :
        IsEmpty(u) /\ u.item = zero /\ ~u.ok

\* C16: from a tree of n elements, n DeleteMin calls, n DeleteMax calls, or
\* Delete of every stored element in any order leave Len() = 0 and no root;
\* any further removal on the empty tree returns (zero, false) and leaves it
\* empty.
Drains ==
    LET drained == {MinTimes(Here, len), MaxTimes(Here, len)}
                       \cup DeleteEach(Here, KeysOf(Contents(root)))
    IN  \A t \in drained : IsEmpty(t) /\ StaysEmpty(t)

\* a tree of four elements and three levels, about to be drained
DrainsWitness ==
    /\ len >= 4
    /\ maxDepth(root) >= 3
    /\ IsEmpty(MinTimes(Here, len))

\* C17: with an always-true predicate AscendLessThan(p) visits the stored
\* e < p increasing, AscendGreaterOrEqual(p) the e >= p increasing,
\* DescendLessOrEqual(p) the e <= p decreasing, DescendGreaterThan(p) the
\* e > p decreasing, DescendRange(hi, lo) the lo < e <= hi decreasing; each
\* element once.
RangeIntervals ==
    arg.stop = 0 =>
        /\ op = "AscendLessThan" =>
               calls = Sorted({e \in stored : compare(e, arg.given[1]) < 0})
        /\ op = "AscendGreaterOrEqual" =>
               calls = Sorted({e \in stored : compare(e, arg.given[1]) >= 0})
        /\ op = "DescendLessOrEqual" =>
               calls = Reverse(Sorted({e \in stored :
                                         compare(e, arg.given[1]) <= 0}))
        /\ op = "DescendGreaterThan" =>
               calls = Reverse(Sorted({e \in stored :
                                         compare(e, arg.given[1]) > 0}))
        /\ op = "DescendRange" =>
               calls = Reverse(Sorted({e \in stored :
                                         /\ compare(e, arg.given[1]) <= 0
                                         /\ compare(e, arg.given[2]) > 0}))

\* a DescendRange that takes some stored elements and leaves one on each side
RangeIntervalsWitness ==
    /\ op = "DescendRange" /\ arg.stop = 0
    /\ Len(calls) >= 2
    /\ \E e \in stored : compare(e, arg.given[1]) > 0
    /\ \E e \in stored : compare(e, arg.given[2]) <= 0

\* the bounds a range operation can be given
AnyBound == {NoBound} \cup {nullItem(Probe(k), TRUE) : k \in ProbeKeys}

\* C18: Clear leaves the tree empty: no root, Len() = 0, nothing found by Get,
\* no predicate call by any range operation; the operation that follows does
\* what it does on a newly constructed tree.
ClearResets ==
    /\ [](op = "Clear" =>
            /\ root = NIL /\ len = 0 /\ stored = {}
            /\ \A k \in ProbeKeys : search(root, Probe(k)) = NoRet
            /\ \A desc \in BOOLEAN, start \in AnyBound, end \in AnyBound :
                   iterate(root, desc, start, end, 0).calls = <<>>)
    /\ [][op = "Clear" =>
            /\ op' = "ReplaceOrInsert" =>
                   /\ root' = [newNode(arg'.item) EXCEPT !.color = _black]
                   /\ len' = 1
                   /\ ret' = NoRet
            /\ op' \in {"Get", "Has", "Delete", "DeleteMin", "DeleteMax", "Clear"} =>
                   /\ root' = NIL
                   /\ len' = 0
                   /\ ret' = NoRet]_vars

\* Clear of a tree of four elements
ClearResetsWitness ==
    /\ op = "Clear"
    /\ pre.len >= 4
    /\ root = NIL

\* the value S maps key to
Lookup(S, key) ==
    IF \E e \in S : e.k = key
    THEN [value |-> (CHOOSE e \in S : e.k = key).v, ok |-> TRUE]
    ELSE [value |-> 0, ok |-> FALSE]

\* C19: LLRBMap implements a finite map keyed by key only: the entries of the
\* tree are the mapped pairs, one per key; Set returns (previous value, true)
\* or (zero, false); Get returns the value last Set and not deleted; Delete
\* returns that value and unmaps the key; Len() counts the mapped keys; Range
\* visits the pairs in ascending key order.
MapRefines ==
    /\ Contents(root) = stored
    /\ Cardinality(KeysOf(stored)) = Cardinality(stored)
    /\ len = Cardinality(stored)
    /\ op = "ReplaceOrInsert" =>
           /\ mapRet = Lookup(Contents(pre.root), arg.item.k)
           /\ Lookup(stored, arg.item.k) = [value |-> arg.item.v, ok |-> TRUE]
    /\ op = "Get" => mapRet = Lookup(stored, arg.item.k)
    /\ op = "Has" => ret.ok = Lookup(stored, arg.item.k).ok
    /\ op = "Delete" =>
           /\ mapRet = Lookup(Contents(pre.root), arg.item.k)
           /\ ~Lookup(stored, arg.item.k).ok
           /\ stored = {e \in Contents(pre.root) : e.k # arg.item.k}
    /\ (op = "Ascend" /\ arg.stop = 0) => calls = Sorted(stored)

\* Set over a mapped key, with another value
MapRefinesWitness ==
    /\ op = "ReplaceOrInsert" /\ mapRet.ok
    /\ mapRet.value # arg.item.v
    /\ len >= 3

Not2Node(c) == isRed(c) \/ isRed(c.left) \/ isRed(c.right)

\* C20: during Delete, DeleteMin and DeleteMax every recursive call of
\* delete, deleteMin or deleteMax on a present child, the deleteMin call on
\* the right subtree included, gets a child that is red or has a red child.
NoTwoNodeDescent ==
    /\ op = "DeleteMin" => \A c \in deleteMinDescents(pre.root) : Not2Node(c)
    /\ op = "DeleteMax" => \A c \in deleteMaxDescents(pre.root) : Not2Node(c)
    /\ op = "Delete" =>
           \A c \in deleteDescents(pre.root, arg.item) : Not2Node(c)

\* a Delete that found its item above the leaves and went on into the right
\* subtree with deleteMin
NoTwoNodeDescentWitness ==
    /\ op = "Delete" /\ ret.ok
    /\ pre.len >= 4
    /\ Cardinality(deleteDescents(pre.root, arg.item)) >= 2

\* the nodes reachable from h, each with all that hangs below it
RECURSIVE Subtrees(_)
Subtrees(h) ==
    IF h = NIL THEN {} ELSE {h} \cup Subtrees(h.left) \cup Subtrees(h.right)

\* the items of the nodes reachable from h, left subtree first
RECURSIVE InOrder(_)
InOrder(h) ==
    IF h = NIL THEN <<>> ELSE InOrder(h.left) \o <<h.item>> \o InOrder(h.right)

\* C21: when Delete(x) finds x at a node with a right subtree, as the tree
\* stood or after rotateRight / moveRedRight, the node gets the least item of
\* its right subtree, that item leaves the right subtree, the element
\* returned is the one stored for x and not the successor, and the tree
\* returned is ordered, black-balanced, left-leaning and without red-red.
DeleteReplaces ==
    op = "Delete" =>
        \A t \in deleteTarget(pre.root, arg.item) :
            /\ t.at.right # NIL
            /\ {t.put.item} = Least(Contents(t.at.right))
            /\ Contents(t.put.right) = Contents(t.at.right) \ {t.put.item}
            /\ Size(t.put.right) = Size(t.at.right) - 1
            /\ t.put.left = t.at.left
            /\ ret = [item |-> t.at.item, ok |-> TRUE]
            /\ ret = search(pre.root, arg.item)
            /\ InOrder(root) = Sorted(Contents(pre.root) \ {t.at.item})
            /\ Cardinality(BlackDepths(root)) = 1
            /\ ~HasRedRight(root)
            /\ ~HasRedRed(root)
            /\ ~isRed(root)

\* a Delete that found its item with a right subtree only after a rotation
\* had moved the node: the node it found it at is none of the tree before
DeleteReplacesWitness ==
    /\ op = "Delete" /\ ret.ok
    /\ \E t \in deleteTarget(pre.root, arg.item) :
           /\ t.at \notin Subtrees(pre.root)
           /\ t.at.left # NIL

\* what a call that found nothing leaves: the answer (zero value, false), no
\* panic, and the length and the stored elements, payloads included, as they
\* were
NothingFound ==
    /\ panic = ""
    /\ ret = [item |-> zero, ok |-> FALSE]
    /\ len = pre.len
    /\ Contents(root) = Contents(pre.root)
    /\ Contents(root) = stored

\* C22: on a tree built with a comparator, Get and Delete of an element not
\* stored answer (zero value, false) without a panic and leave Len() and the
\* stored elements as they were; so do Delete, DeleteMin and DeleteMax on an
\* empty tree, whatever the comparator.
NotFoundIsValue ==
    /\ ( /\ compareSet
         /\ op \in {"Get", "Delete"}
         /\ arg.item.k \notin KeysOf(Contents(pre.root)) ) => NothingFound
    /\ ( /\ op \in {"Delete", "DeleteMin", "DeleteMax"}
         /\ pre.root = NIL ) => NothingFound

\* a Get that found nothing in a tree of three elements or more, the key
\* looked for lying between two stored ones
NotFoundIsValueWitness ==
    /\ compareSet /\ op = "Get" /\ ~ret.ok
    /\ len >= 3
    /\ \E e, f \in stored : e.k < arg.item.k /\ arg.item.k < f.k

Readers == {"Get", "Has", "Len"} \cup Ascending \cup Descending

\* C23: Get, Has, Len and every range operation, wherever the predicate
\* stops the walk, leave the root, the shape, every item, every colour and
\* the length as they were before the call.
ReadOnly == [][op' \in Readers => (root' = root /\ len' = len)]_vars

\* a descending range query that the predicate stopped after at least two
\* elements, on a tree of three elements or more
ReadOnlyWitness ==
    /\ op \in Descending /\ arg.stop # 0
    /\ len >= 3
    /\ Len(calls) >= 2
    /\ calls[Len(calls)].k = arg.stop

\* the tree at h with item in the place of the item comparing equal to it,
\* every node where it was and of the colour it had
RECURSIVE Replaced(_, _)
Replaced(h, item) ==
    IF h = NIL THEN NIL
    ELSE [item  |-> IF compare(item, h.item) = 0 THEN item ELSE h.item,
          left  |-> Replaced(h.left, item),
          right |-> Replaced(h.right, item),
          color |-> h.color]

\* C24: ReplaceOrInsert(x) on a tree holding an element that compares equal
\* to x changes the item of that node and nothing else: the shape, the other
\* items, every colour and the length are as they were.
ReplaceInPlace ==
    ( /\ op = "ReplaceOrInsert"
      /\ \E e \in Contents(pre.root) : compare(arg.item, e) = 0 ) =>
        /\ root = Replaced(pre.root, arg.item)
        /\ Shape(root) = Shape(pre.root)
        /\ len = pre.len

\* an element below the root, in a tree of four, replaced by one that
\* compares equal and differs
ReplaceInPlaceWitness ==
    /\ op = "ReplaceOrInsert" /\ ret.ok
    /\ ret.item # arg.item
    /\ len >= 4
    /\ compare(arg.item, root.item) # 0
    /\ root # pre.root

====
